---- MODULE Spec2Model ----
(***************************************************************************)
(* Model of the CAMT.053 flattener of src/src/main.rs: main,               *)
(* process_camt53, ntry_parser and txdtls_parser.                          *)
(*                                                                         *)
(* An XML element is a record [tag, text, children]; tags are matched      *)
(* namespace-agnostically (NSAny), so a tag is its local name.  A text is  *)
(* a sequence of tokens and String::push_str is \o.  The tokens used are   *)
(* prefix-free (no token is a prefix of another), so two texts are equal   *)
(* as token sequences exactly when they are equal as strings.              *)
(***************************************************************************)
EXTENDS Integers, Sequences, FiniteSets

VARIABLES pc, fidx, root_element, stmt_out, entries, csv,
          ntry_account, ntry_child, ntry_out,
          tx_entry, tx_dtls, tx_out

vars == <<pc, fidx, root_element, stmt_out, entries, csv,
          ntry_account, ntry_child, ntry_out,
          tx_entry, tx_dtls, tx_out>>

main_vars == <<fidx, entries, csv>>
stmt_vars == <<root_element, stmt_out>>
ntry_vars == <<ntry_account, ntry_child, ntry_out>>
tx_vars == <<tx_entry, tx_dtls, tx_out>>

\* ---------------------------------------------------------------- bounds
MaxTxChildren == 3
MaxDtls == 3
MaxWrappers == 2
MaxStmtChildren == 3
MaxFiles == 3

\* ------------------------------------------------------- values, elements
T(s) == <<s>>

Ok(v) == [ok |-> TRUE, val |-> v]
Err(m) == [ok |-> FALSE, val |-> m]
ErrUnit == [ok |-> FALSE, val |-> <<>>]

El(tag, text, children) == [tag |-> tag, text |-> text, children |-> children]
Leaf(tag, text) == El(tag, text, <<>>)
Node(tag, children) == El(tag, <<>>, children)

HasChild(e, name) == \E i \in 1..Len(e.children) : e.children[i].tag = name

GetChild(e, name) ==
    LET i == CHOOSE k \in 1..Len(e.children) :
                 /\ e.children[k].tag = name
                 /\ \A j \in 1..(k - 1) : e.children[j].tag # name
    IN e.children[i]

\* get_child("Id").and_then(|c| c.get_child("IBAN"))
HasIdIban(e) == HasChild(e, "Id") /\ HasChild(GetChild(e, "Id"), "IBAN")
IdIbanText(e) == GetChild(GetChild(e, "Id"), "IBAN").text

SeqsUpTo(S, n) == UNION {[1..k -> S] : k \in 0..n}

\* ---------------------------------------------------------- txdtls_parser
\* Every intermediate result is handed on as an argument, so each step of the
\* code is one operator.
not_found_element == Leaf("NotFound", T("Not Found"))

cdtr_step(child) ==
    IF HasChild(child, "Cdtr")
    THEN IF ~HasChild(GetChild(child, "Cdtr"), "Nm") THEN Err("Cdtr without Nm")
         ELSE IF HasChild(child, "CdtrAcct")
              THEN IF HasIdIban(GetChild(child, "CdtrAcct"))
                   THEN Ok([partner_nm |-> GetChild(GetChild(child, "Cdtr"), "Nm").text,
                            iban |-> IdIbanText(GetChild(child, "CdtrAcct"))])
                   ELSE Err("no cdtr IBAN in RltdPties")
              ELSE Ok([partner_nm |-> GetChild(GetChild(child, "Cdtr"), "Nm").text,
                       iban |-> T("UKNOWN IBAN")])
    ELSE Ok([partner_nm |-> T("unknown_partner"), iban |-> T("unknown_iban")])

dbtr_iban(child) ==
    IF HasChild(child, "DbtrAcct")
    THEN IF HasIdIban(GetChild(child, "DbtrAcct"))
         THEN IdIbanText(GetChild(child, "DbtrAcct"))
         ELSE not_found_element.text
    ELSE T("UKNOWN IBAN")

dbtr_step_keeps_cdtr(child, prev) ==
    IF HasChild(child, "Dbtr") /\ ~HasChild(child, "Cdtr")
    THEN IF ~HasChild(GetChild(child, "Dbtr"), "Nm") THEN Err("Cdtr without Nm")
         ELSE Ok([partner_nm |-> GetChild(GetChild(child, "Dbtr"), "Nm").text,
                  iban |-> dbtr_iban(child)])
    ELSE Ok(prev)

dbtr_step(child, prev) ==
    IF HasChild(child, "Dbtr")
    THEN IF ~HasChild(GetChild(child, "Dbtr"), "Nm") THEN Err("Cdtr without Nm")
         ELSE Ok([partner_nm |-> GetChild(GetChild(child, "Dbtr"), "Nm").text,
                  iban |-> dbtr_iban(child)])
    ELSE Ok(prev)

\* description = partner_nm + " - " + iban
rltd_join(d) ==
    IF ~d.ok THEN d ELSE Ok(d.val.partner_nm \o T(" - ") \o d.val.iban)

rltd_after_cdtr(child, c) ==
    IF ~c.ok THEN c ELSE rltd_join(dbtr_step(child, c.val))

\* the RltdPties branch of the scan: the description it assigns
rltd_pties_description(child) == rltd_after_cdtr(child, cdtr_step(child))

tx_amount(child, st) ==
    IF child.tag = "Amt" THEN [st EXCEPT !.amount = Ok(child.text)] ELSE st

tx_operation(child, st) ==
    IF child.tag = "CdtDbtInd" THEN [st EXCEPT !.operation = Ok(child.text)] ELSE st

tx_describe(st, d) ==
    IF d.ok THEN Ok([st EXCEPT !.result.description = d.val]) ELSE d

tx_rltd_pties(child, st) ==
    IF child.tag = "RltdPties"
    THEN tx_describe(st, rltd_pties_description(child))
    ELSE Ok(st)

\* the body of the scan for one child
tx_child(child, st) == tx_rltd_pties(child, tx_operation(child, tx_amount(child, st)))

RECURSIVE tx_children_loop(_, _, _)
RECURSIVE tx_children_next(_, _, _)
tx_children_next(children, i, r) ==
    IF r.ok THEN tx_children_loop(children, i + 1, r.val) ELSE r

tx_children_loop(children, i, st) ==
    IF i > Len(children) THEN Ok(st)
    ELSE tx_children_next(children, i, tx_child(children[i], st))

tx_resolve_keeps_other(res, operation, amount) ==
    IF operation = T("DBIT")
    THEN [res EXCEPT !.debit = amount]
    ELSE [res EXCEPT !.credit = amount]

tx_resolve_sets_type(res, operation, amount) ==
    IF operation = T("DBIT")
    THEN [res EXCEPT !.debit = amount, !.credit = T("0"), !.ntry_type = operation]
    ELSE [res EXCEPT !.credit = amount, !.debit = T("0"), !.ntry_type = operation]

tx_resolve_no_override(res, operation, amount) == res

tx_resolve(res, operation, amount) ==
    IF operation = T("DBIT")
    THEN [res EXCEPT !.debit = amount, !.credit = T("0")]
    ELSE [res EXCEPT !.credit = amount, !.debit = T("0")]

tx_finish(scan) ==
    IF ~scan.ok THEN scan
    ELSE IF ~scan.val.amount.ok THEN Err("did not find amount")
    ELSE IF ~scan.val.operation.ok THEN Err("did not found operation type")
    ELSE Ok(tx_resolve(scan.val.result, scan.val.operation.val, scan.val.amount.val))

txdtls_parser(entry, txd) ==
    tx_finish(tx_children_loop(txd.children, 1,
                  [result |-> entry, operation |-> ErrUnit, amount |-> ErrUnit]))

\* ------------------------------------------------------------ ntry_parser
empty_record(account, date, descr, ntry_type) ==
    [account |-> account, date |-> date, description |-> descr,
     debit |-> T("0"), credit |-> T("0"), ntry_type |-> ntry_type]

base_record_dbit_test(account, date, descr, ntry_type, amount) ==
    IF ntry_type = T("DBIT")
    THEN [empty_record(account, date, descr, ntry_type) EXCEPT !.debit = amount]
    ELSE [empty_record(account, date, descr, ntry_type) EXCEPT !.credit = amount]

base_record(account, date, descr, ntry_type, amount) ==
    IF ntry_type = T("CRDT")
    THEN [empty_record(account, date, descr, ntry_type) EXCEPT !.credit = amount]
    ELSE [empty_record(account, date, descr, ntry_type) EXCEPT !.debit = amount]

RECURSIVE ntry_dtls_loop(_, _, _, _)
RECURSIVE ntry_dtls_push(_, _, _, _, _)
\* result.push(txdtls); had_ntry_dtls = true
ntry_dtls_push(children, j, record, st, txdtls) ==
    IF ~txdtls.ok THEN txdtls
    ELSE ntry_dtls_loop(children, j + 1, record,
             [result |-> Append(st.result, txdtls.val), had_ntry_dtls |-> TRUE])

ntry_dtls_loop(children, j, record, st) ==
    IF j > Len(children) THEN Ok(st)
    ELSE IF children[j].tag = "TxDtls"
         THEN ntry_dtls_push(children, j, record, st,
                             txdtls_parser(record, children[j]))
         ELSE ntry_dtls_loop(children, j + 1, record, st)

RECURSIVE ntry_children_loop(_, _, _, _)
RECURSIVE ntry_children_next(_, _, _, _)
ntry_children_next(children, i, record, inner) ==
    IF ~inner.ok THEN inner
    ELSE ntry_children_loop(children, i + 1, record, inner.val)

ntry_children_loop(children, i, record, st) ==
    IF i > Len(children) THEN Ok(st)
    ELSE IF children[i].tag = "NtryDtls"
         THEN ntry_children_next(children, i, record,
                  ntry_dtls_loop(children[i].children, 1, record, st))
         ELSE ntry_children_loop(children, i + 1, record, st)

ntry_finish_always(st, record) == Append(st.result, record)

ntry_finish(st, record) ==
    IF st.had_ntry_dtls = FALSE THEN Append(st.result, record) ELSE st.result

ntry_return(scan, record) ==
    IF ~scan.ok THEN scan ELSE Ok(ntry_finish(scan.val, record))

ntry_scan(child, record) ==
    ntry_return(ntry_children_loop(child.children, 1, record,
                    [result |-> <<>>, had_ntry_dtls |-> FALSE]),
                record)

ntry_parser(account, child) ==
    IF ~HasChild(child, "Amt") THEN Err("No Amts in Ntry")
    ELSE IF ~(HasChild(child, "BookgDt")
              /\ HasChild(GetChild(child, "BookgDt"), "Dt"))
         THEN Err("no Dt in Bookgdt")
    ELSE IF ~HasChild(child, "AddtlNtryInf") THEN Err("cannot get AddtlNtryInf")
    ELSE IF ~HasChild(child, "CdtDbtInd") THEN Err("error in CdtDbtInd")
    ELSE ntry_scan(child,
             base_record(account,
                         GetChild(GetChild(child, "BookgDt"), "Dt").text,
                         GetChild(child, "AddtlNtryInf").text,
                         GetChild(child, "CdtDbtInd").text,
                         GetChild(child, "Amt").text))

\* --------------------------------------------------------- process_camt53
IntTokens == [s \in {"0", "7"} |-> IF s = "0" THEN 0 ELSE 7]

\* str::parse::<i64>
parse_i64(text) ==
    IF Len(text) = 1 /\ text[1] \in DOMAIN IntTokens
    THEN Ok(IntTokens[text[1]])
    ELSE Err("ParseIntError")

stmt_acct_keep_first(stmt_info, child) ==
    IF stmt_info.iban = T("IBAN")
    THEN [stmt_info EXCEPT !.iban = IdIbanText(child)]
    ELSE stmt_info

stmt_acct(stmt_info, child) == [stmt_info EXCEPT !.iban = IdIbanText(child)]

RECURSIVE stmt_children_loop(_, _, _)
RECURSIVE stmt_seq_nb(_, _, _, _)
RECURSIVE stmt_ntry(_, _, _, _)
stmt_seq_nb(children, i, st, n) ==
    IF ~n.ok THEN n
    ELSE stmt_children_loop(children, i + 1,
             [st EXCEPT !.stmt_info.entries_count = n.val])

\* ntry_vec.extend(res)
stmt_ntry(children, i, st, res) ==
    IF ~res.ok THEN res
    ELSE stmt_children_loop(children, i + 1,
             [st EXCEPT !.ntry_vec = st.ntry_vec \o res.val])

stmt_children_loop(children, i, st) ==
    IF i > Len(children) THEN Ok(st.ntry_vec)
    ELSE IF children[i].tag = "ElctrncSeqNb"
         THEN stmt_seq_nb(children, i, st, parse_i64(children[i].text))
    ELSE IF children[i].tag = "Acct"
         THEN IF ~HasIdIban(children[i]) THEN Err("no IBAN")
              ELSE stmt_children_loop(children, i + 1,
                       [st EXCEPT !.stmt_info = stmt_acct(st.stmt_info, children[i])])
    ELSE IF children[i].tag = "Ntry"
         THEN stmt_ntry(children, i, st, ntry_parser(st.stmt_info.iban, children[i]))
    ELSE stmt_children_loop(children, i + 1, st)

process_camt53(root) ==
    IF ~HasChild(root, "BkToCstmrStmt") THEN Err("unwrap on None")
    ELSE IF ~HasChild(GetChild(root, "BkToCstmrStmt"), "Stmt")
         THEN Err("unwrap on None")
    ELSE stmt_children_loop(
             GetChild(GetChild(root, "BkToCstmrStmt"), "Stmt").children, 1,
             [ntry_vec |-> <<>>,
              stmt_info |-> [iban |-> T("IBAN"), entries_count |-> 0]])

\* ------------------------------------------------------------------ inputs
CRDT == T("CRDT")
DBIT == T("DBIT")

Amt(a) == Leaf("Amt", a)
CdtDbtInd(o) == Leaf("CdtDbtInd", o)

PartyOpts(tag, nm) ==
    {<<>>, <<Node(tag, <<>>)>>, <<Node(tag, <<Leaf("Nm", nm)>>)>>}

AcctOpts(tag, iban) ==
    {<<>>, <<Node(tag, <<>>)>>, <<Node(tag, <<Node("Id", <<>>)>>)>>,
     <<Node(tag, <<Node("Id", <<Leaf("IBAN", iban)>>)>>)>>}

CdtrNm == T("Carl")
CdtrIban == T("CH01")
DbtrNm == T("Dora")
DbtrIban == T("DE02")

RltdPtiesSet ==
    {Node("RltdPties", c \o ca \o d \o da) :
        c \in PartyOpts("Cdtr", CdtrNm), ca \in AcctOpts("CdtrAcct", CdtrIban),
        d \in PartyOpts("Dbtr", DbtrNm), da \in AcctOpts("DbtrAcct", DbtrIban)}

RltdCdtr == Node("RltdPties",
                <<Node("Cdtr", <<Leaf("Nm", CdtrNm)>>),
                  Node("CdtrAcct", <<Node("Id", <<Leaf("IBAN", CdtrIban)>>)>>)>>)
RltdDbtr == Node("RltdPties",
                <<Node("Dbtr", <<Leaf("Nm", DbtrNm)>>),
                  Node("DbtrAcct", <<Node("Id", <<Leaf("IBAN", DbtrIban)>>)>>)>>)
RltdBoth == Node("RltdPties", RltdCdtr.children \o RltdDbtr.children)

UstrdText == T("rmt")
RmtInfUstrd == Node("RmtInf", <<Leaf("Ustrd", UstrdText)>>)
RmtInfEmpty == Node("RmtInf", <<>>)

BasicTxChildren ==
    {Amt(T("0")), Amt(T("10")), Amt(T("42.50")),
     CdtDbtInd(CRDT), CdtDbtInd(DBIT), CdtDbtInd(T("dbit")),
     RltdCdtr, RltdBoth, RmtInfUstrd, RmtInfEmpty, Leaf("Refs", T("ref"))}

TxDtlsSet ==
    {Node("TxDtls", cs) : cs \in SeqsUpTo(BasicTxChildren, MaxTxChildren)}
    \cup {Node("TxDtls", <<Amt(T("10")), CdtDbtInd(o), r>>) :
              o \in {CRDT, DBIT}, r \in RltdPtiesSet}

\* the templates ntry_parser hands to txdtls_parser
TemplateSet ==
    {base_record(T("FR76"), T("2024-01-31"), T("info"), i, a) :
        i \in {CRDT, DBIT}, a \in {T("0"), T("10")}}

TxPlain == Node("TxDtls", <<Amt(T("10")), CdtDbtInd(CRDT)>>)
TxDbtr == Node("TxDtls", <<Amt(T("42.50")), CdtDbtInd(DBIT), RltdDbtr>>)
TxNoAmt == Node("TxDtls", <<CdtDbtInd(CRDT)>>)
TxOddInd == Node("TxDtls", <<Amt(T("10")), CdtDbtInd(T("dbit"))>>)
TxSmall == {TxPlain, TxDbtr, TxNoAmt, TxOddInd}

\* every NtryDtls wrapper starts with a child that is no TxDtls
NtryDtls(txs) == Node("NtryDtls", <<Leaf("Btch", T("b"))>> \o txs)

\* sequences of k wrappers holding at most budget TxDtls in all
RECURSIVE WrapSeqs(_, _)
WrapSeqs(k, budget) ==
    IF k = 0 THEN {<<>>}
    ELSE UNION {{<<NtryDtls(w)>> \o rest :
                    rest \in WrapSeqs(k - 1, budget - Len(w))} :
                w \in SeqsUpTo(TxSmall, budget)}

WrapperSeqs == UNION {WrapSeqs(k, MaxDtls) : k \in 0..MaxWrappers}

BookgDt == Node("BookgDt", <<Leaf("Dt", T("2024-01-31"))>>)
DescrTexts == {T("info"), DbtrNm \o T(" - ") \o DbtrIban}

NtryHeads ==
    {<<Amt(a), BookgDt, Leaf("AddtlNtryInf", d), CdtDbtInd(i)>> :
        a \in {T("0"), T("10"), T("42.50")}, d \in DescrTexts,
        i \in {CRDT, DBIT, T("crdt")}}
    \cup {<<BookgDt, Leaf("AddtlNtryInf", T("info")), CdtDbtInd(CRDT)>>,
          <<Amt(T("10")), Leaf("AddtlNtryInf", T("info")), CdtDbtInd(CRDT)>>,
          <<Amt(T("10")), Node("BookgDt", <<>>), Leaf("AddtlNtryInf", T("info")),
            CdtDbtInd(CRDT)>>,
          <<Amt(T("10")), BookgDt, CdtDbtInd(CRDT)>>,
          <<Amt(T("10")), BookgDt, Leaf("AddtlNtryInf", T("info"))>>}

NtrySet == {Node("Ntry", h \o ws) : h \in NtryHeads, ws \in WrapperSeqs}

AccountSet == {T("IBAN"), T("FR76")}

NtryHead(a, i) == <<Amt(a), BookgDt, Leaf("AddtlNtryInf", T("info")), CdtDbtInd(i)>>
NtryPlain == Node("Ntry", NtryHead(T("10"), CRDT))
NtryTwo == Node("Ntry", NtryHead(T("52.50"), CRDT)
                        \o <<NtryDtls(<<TxPlain>>), NtryDtls(<<TxDbtr>>)>>)
NtryNoAmt == Node("Ntry", <<BookgDt, Leaf("AddtlNtryInf", T("info")), CdtDbtInd(DBIT)>>)
NtryBadDtl == Node("Ntry", NtryHead(T("10"), DBIT) \o <<NtryDtls(<<TxNoAmt>>)>>)

Acct(iban) == Node("Acct", <<Node("Id", <<Leaf("IBAN", iban)>>)>>)
AcctNoIban == Node("Acct", <<Node("Id", <<>>)>>)

StmtChildSet ==
    {Leaf("ElctrncSeqNb", T("7")), Leaf("ElctrncSeqNb", T("seven")),
     Acct(T("FR76")), Acct(T("CH93")), AcctNoIban,
     NtryPlain, NtryTwo, NtryNoAmt, NtryBadDtl, Leaf("Bal", T("bal"))}

Document(children) ==
    Node("Document", <<Node("BkToCstmrStmt",
                           <<Leaf("GrpHdr", T("hdr")), Node("Stmt", children)>>)>>)

DocSet ==
    {Document(cs) : cs \in SeqsUpTo(StmtChildSet, MaxStmtChildren)}
    \cup {Node("Document", <<>>),
          Node("Document", <<Node("BkToCstmrStmt", <<Leaf("GrpHdr", T("hdr"))>>)>>)}

\* the files the run of main is given
MainDocs ==
    {Document(<<Acct(T("FR76")), NtryPlain>>),
     Document(<<NtryTwo>>),
     Document(<<>>),
     Document(<<Acct(T("FR76")), NtryPlain, Leaf("ElctrncSeqNb", T("seven"))>>),
     Document(<<NtryPlain, NtryNoAmt>>),
     Document(<<NtryPlain, NtryBadDtl>>),
     Document(<<NtryPlain, AcctNoIban>>),
     Node("Document", <<>>),
     Node("Document", <<Node("BkToCstmrStmt", <<Leaf("GrpHdr", T("hdr"))>>)>>)}

\* ------------------------------------------------------------------- main
NoElement == Node("none", <<>>)
NoRecord == [account |-> <<>>, date |-> <<>>, description |-> <<>>,
             debit |-> <<>>, credit |-> <<>>, ntry_type |-> <<>>]

IdleMain == fidx = 0 /\ entries = <<>> /\ csv = [created |-> FALSE, rows |-> <<>>]
IdleStmt == root_element = NoElement /\ stmt_out = ErrUnit
IdleNtry == ntry_account = <<>> /\ ntry_child = NoElement /\ ntry_out = ErrUnit
IdleTx == tx_entry = NoRecord /\ tx_dtls = NoElement /\ tx_out = ErrUnit

Init == pc = "loop" /\ IdleMain /\ IdleStmt /\ IdleNtry /\ IdleTx

\* File::open, read_to_string, parse: the next file of the glob expansion
OpenFile ==
    /\ pc = "loop"
    /\ fidx < MaxFiles
    /\ \/ \E doc \in MainDocs : root_element' = doc /\ pc' = "parsed"
       \/ pc' = "panicked" /\ UNCHANGED root_element
    /\ UNCHANGED <<main_vars, stmt_out, ntry_vars, tx_vars>>

main_extend_flushes(res) ==
    IF res.ok
    THEN /\ entries' = entries \o res.val
         /\ fidx' = fidx + 1
         /\ pc' = "loop"
         /\ UNCHANGED csv
    ELSE /\ pc' = "panicked"
         /\ csv' = [created |-> TRUE, rows |-> entries]
         /\ UNCHANGED <<entries, fidx>>

\* entries.extend(result), or the panic that ends the run
main_extend(res) ==
    IF res.ok
    THEN /\ entries' = entries \o res.val
         /\ fidx' = fidx + 1
         /\ pc' = "loop"
         /\ UNCHANGED csv
    ELSE /\ pc' = "panicked"
         /\ UNCHANGED <<entries, fidx, csv>>

ProcessFile ==
    /\ pc = "parsed"
    /\ main_extend(process_camt53(root_element))
    /\ UNCHANGED <<stmt_vars, ntry_vars, tx_vars>>

\* the glob expansion is exhausted: write_csv_result
WriteCsv ==
    /\ pc = "loop"
    /\ csv' = [created |-> TRUE, rows |-> entries]
    /\ pc' = "done"
    /\ UNCHANGED <<fidx, entries, stmt_vars, ntry_vars, tx_vars>>

Next == OpenFile \/ ProcessFile \/ WriteCsv

Spec == Init /\ [][Next]_vars

\* --------------------------------------------- process_camt53 on its inputs
InitStmt ==
    /\ pc = "stmt_call"
    /\ root_element \in DocSet
    /\ stmt_out = ErrUnit
    /\ IdleMain /\ IdleNtry /\ IdleTx

CallProcessCamt53 ==
    /\ pc = "stmt_call"
    /\ stmt_out' = process_camt53(root_element)
    /\ pc' = "stmt_ret"
    /\ UNCHANGED <<root_element, main_vars, ntry_vars, tx_vars>>

NextStmt == CallProcessCamt53

SpecStmt == InitStmt /\ [][NextStmt]_vars

\* ------------------------------------------------ ntry_parser on its inputs
InitNtry ==
    /\ pc = "ntry_call"
    /\ ntry_account \in AccountSet
    /\ ntry_child \in NtrySet
    /\ ntry_out = ErrUnit
    /\ IdleMain /\ IdleStmt /\ IdleTx

CallNtryParser ==
    /\ pc = "ntry_call"
    /\ ntry_out' = ntry_parser(ntry_account, ntry_child)
    /\ pc' = "ntry_ret"
    /\ UNCHANGED <<ntry_account, ntry_child, main_vars, stmt_vars, tx_vars>>

NextNtry == CallNtryParser

SpecNtry == InitNtry /\ [][NextNtry]_vars

\* ---------------------------------------------- txdtls_parser on its inputs
InitTx ==
    /\ pc = "tx_call"
    /\ tx_entry \in TemplateSet
    /\ tx_dtls \in TxDtlsSet
    /\ tx_out = ErrUnit
    /\ IdleMain /\ IdleStmt /\ IdleNtry

CallTxdtlsParser ==
    /\ pc = "tx_call"
    /\ tx_out' = txdtls_parser(tx_entry, tx_dtls)
    /\ pc' = "tx_ret"
    /\ UNCHANGED <<tx_entry, tx_dtls, main_vars, stmt_vars, ntry_vars>>

NextTx == CallTxdtlsParser

SpecTx == InitTx /\ [][NextTx]_vars

\* ------------------------------------------------- what the claims speak of
\* the text of the last child of e with the given tag
LastChild(e, name) ==
    LET i == CHOOSE k \in 1..Len(e.children) :
                 /\ e.children[k].tag = name
                 /\ \A j \in (k + 1)..Len(e.children) : e.children[j].tag # name
    IN e.children[i]

IsTxDtls(c) == c.tag = "TxDtls"

\* the TxDtls of an entry in document order, across its NtryDtls wrappers
RECURSIVE FlatFrom(_, _)
FlatFrom(children, i) ==
    IF i > Len(children) THEN <<>>
    ELSE (IF children[i].tag = "NtryDtls"
          THEN SelectSeq(children[i].children, IsTxDtls)
          ELSE <<>>) \o FlatFrom(children, i + 1)

FlatTxDtls(ntry) == FlatFrom(ntry.children, 1)

NtryAmt == GetChild(ntry_child, "Amt").text
NtryInd == GetChild(ntry_child, "CdtDbtInd").text
NtryTxs == FlatTxDtls(ntry_child)
NtryReturned == pc = "ntry_ret" /\ ntry_out.ok

\* the record the entry yields when it has no TxDtls
Template ==
    base_record(ntry_account,
                GetChild(GetChild(ntry_child, "BookgDt"), "Dt").text,
                GetChild(ntry_child, "AddtlNtryInf").text,
                NtryInd, NtryAmt)

NtryComplete ==
    /\ HasChild(ntry_child, "Amt")
    /\ HasChild(ntry_child, "BookgDt")
    /\ HasChild(GetChild(ntry_child, "BookgDt"), "Dt")
    /\ HasChild(ntry_child, "AddtlNtryInf")
    /\ HasChild(ntry_child, "CdtDbtInd")

ExactlyOneZero(r, amt) ==
    \/ r.debit = T("0") /\ r.credit = amt /\ r.credit # T("0")
    \/ r.credit = T("0") /\ r.debit = amt /\ r.debit # T("0")

OneZeroOtherAmount(r, amt) ==
    \/ r.debit = T("0") /\ r.credit = amt
    \/ r.credit = T("0") /\ r.debit = amt

\* the amount text a record of the entry resolves to
ResolvedAmt(i) ==
    IF NtryTxs = <<>> THEN NtryAmt ELSE LastChild(NtryTxs[i], "Amt").text

\* C1: ntry_parser returns N records when the entry has N >= 1 TxDtls across
\* its NtryDtls wrappers and the base template alone when it has none; the
\* i-th record is the enrichment of the i-th TxDtls in document order, and
\* the template is never returned next to detail-derived records.
C1_ExtractorOutput ==
    pc = "ntry_ret" =>
        /\ ntry_out.ok <=>
               /\ NtryComplete
               /\ \A i \in 1..Len(NtryTxs) : txdtls_parser(Template, NtryTxs[i]).ok
        /\ ntry_out.ok =>
               IF NtryTxs = <<>>
               THEN ntry_out.val = <<Template>>
               ELSE /\ Len(ntry_out.val) = Len(NtryTxs)
                    /\ \A i \in 1..Len(NtryTxs) :
                           ntry_out.val[i] = txdtls_parser(Template, NtryTxs[i]).val

C1_Witness ==
    /\ NtryReturned
    /\ Len(NtryTxs) = 3
    /\ Len(ntry_out.val) = 3
    /\ Len(ntry_child.children) = 6
    /\ NtryTxs[1] # NtryTxs[3]

\* C2 as stated: in every record exactly one of debit and credit is "0" and
\* the other is the resolved amount text.
C2_ExactlyOneZero ==
    NtryReturned =>
        \A i \in 1..Len(ntry_out.val) : ExactlyOneZero(ntry_out.val[i], ResolvedAmt(i))

\* C2 amended: in every record one of debit and credit is "0" and the other
\* is the resolved amount text verbatim; exactly one of them is "0" unless the
\* amount text is itself "0".
C2_OneZeroOtherAmount ==
    NtryReturned =>
        \A i \in 1..Len(ntry_out.val) :
            /\ OneZeroOtherAmount(ntry_out.val[i], ResolvedAmt(i))
            /\ ResolvedAmt(i) # T("0") => ExactlyOneZero(ntry_out.val[i], ResolvedAmt(i))

C2_Witness ==
    /\ NtryReturned
    /\ NtryInd = CRDT
    /\ \E i \in 1..Len(NtryTxs) :
           /\ NtryTxs[i] = TxDbtr
           /\ ntry_out.val[i].debit = T("42.50")
           /\ ntry_out.val[i].credit = T("0")

\* C5: every record derived from a TxDtls carries the parent entry's
\* CdtDbtInd text in ntry_type, whatever the TxDtls's own indicator is.
C5_NtryTypeInherited ==
    NtryReturned /\ NtryTxs # <<>> =>
        \A i \in 1..Len(ntry_out.val) : ntry_out.val[i].ntry_type = NtryInd

C5_Witness ==
    /\ NtryReturned
    /\ NtryInd = CRDT
    /\ \E i \in 1..Len(NtryTxs) :
           /\ LastChild(NtryTxs[i], "CdtDbtInd").text = DBIT
           /\ ntry_out.val[i].debit = LastChild(NtryTxs[i], "Amt").text
           /\ ntry_out.val[i].credit = T("0")
           /\ ntry_out.val[i].ntry_type = CRDT

SameColumn(tx) == (NtryInd = CRDT) <=> (LastChild(tx, "CdtDbtInd").text # DBIT)

C10_AmountPlacement ==
    NtryReturned =>
        IF NtryTxs = <<>>
        THEN IF NtryInd = CRDT
             THEN ntry_out.val[1].credit = NtryAmt /\ ntry_out.val[1].debit = T("0")
             ELSE ntry_out.val[1].debit = NtryAmt /\ ntry_out.val[1].credit = T("0")
        ELSE \A i \in 1..Len(ntry_out.val) :
                 IF LastChild(NtryTxs[i], "CdtDbtInd").text = DBIT
                 THEN /\ ntry_out.val[i].debit = LastChild(NtryTxs[i], "Amt").text
                      /\ ntry_out.val[i].credit = T("0")
                 ELSE /\ ntry_out.val[i].credit = LastChild(NtryTxs[i], "Amt").text
                      /\ ntry_out.val[i].debit = T("0")

C10_Witness ==
    /\ NtryReturned
    /\ NtryTxs = <<>>
    /\ NtryInd = T("crdt")
    /\ ntry_out.val[1].debit = T("42.50")
    /\ ntry_out.val[1].credit = T("0")

\* the Stmt whose children process_camt53 scanned
StmtChildren == GetChild(GetChild(root_element, "BkToCstmrStmt"), "Stmt").children

\* the IBAN of the last Acct before position i, or the placeholder
IbanBefore(children, i) ==
    IF \E j \in 1..(i - 1) : children[j].tag = "Acct"
    THEN LET j == CHOOSE k \in 1..(i - 1) :
                      /\ children[k].tag = "Acct"
                      /\ \A m \in (k + 1)..(i - 1) : children[m].tag # "Acct"
         IN IdIbanText(children[j])
    ELSE T("IBAN")

RecordCount(ntry) ==
    IF FlatTxDtls(ntry) = <<>> THEN 1 ELSE Len(FlatTxDtls(ntry))

\* one account per record, entry by entry in document order
RECURSIVE ExpectedAccounts(_, _)
ExpectedAccounts(children, i) ==
    IF i > Len(children) THEN <<>>
    ELSE (IF children[i].tag = "Ntry"
          THEN [k \in 1..RecordCount(children[i]) |-> IbanBefore(children, i)]
          ELSE <<>>) \o ExpectedAccounts(children, i + 1)

\* C3: the account of every record derived from an Ntry is the IBAN of the
\* most recent Acct child of Stmt before that Ntry, or the placeholder "IBAN"
\* when none precedes it; a later Acct changes no earlier record.
C3_PositionalIban ==
    pc = "stmt_ret" /\ stmt_out.ok =>
        [k \in 1..Len(stmt_out.val) |-> stmt_out.val[k].account]
            = ExpectedAccounts(StmtChildren, 1)

C3_Witness ==
    /\ pc = "stmt_ret"
    /\ stmt_out.ok
    /\ Len(StmtChildren) = 3
    /\ StmtChildren[1].tag = "Ntry"
    /\ StmtChildren[2].tag = "Acct"
    /\ StmtChildren[3].tag = "Ntry"
    /\ stmt_out.val[1].account = T("IBAN")
    /\ stmt_out.val[Len(stmt_out.val)].account = IdIbanText(StmtChildren[2])

\* C4: when processing of a file fails the run aborts before any row is
\* written: no CSV output exists, whatever was extracted before.
C4_NoOutputOnFailure ==
    /\ pc = "panicked" => ~csv.created /\ csv.rows = <<>>
    /\ csv.created => pc = "done"

C4_Witness ==
    /\ pc = "panicked"
    /\ fidx > 0
    /\ entries # <<>>
    /\ HasChild(root_element, "BkToCstmrStmt")
    /\ ~process_camt53(root_element).ok
    /\ ~csv.created

TxReturned == pc = "tx_ret" /\ tx_out.ok

\* C6: when a RltdPties holds both a Cdtr and a Dbtr the description is the
\* Dbtr's Nm, " - ", and the IBAN at DbtrAcct/Id/IBAN or a not-found sentinel
\* when that path is absent; the creditor's name and IBAN do not appear.
C6_DebtorWins ==
    (/\ TxReturned
     /\ HasChild(tx_dtls, "RltdPties")
     /\ HasChild(LastChild(tx_dtls, "RltdPties"), "Cdtr")
     /\ HasChild(LastChild(tx_dtls, "RltdPties"), "Dbtr")) =>
        LET rltd == LastChild(tx_dtls, "RltdPties")
            nm == GetChild(GetChild(rltd, "Dbtr"), "Nm").text
            descr == tx_out.val.description
        IN /\ IF HasChild(rltd, "DbtrAcct") /\ HasIdIban(GetChild(rltd, "DbtrAcct"))
              THEN descr = nm \o T(" - ") \o IdIbanText(GetChild(rltd, "DbtrAcct"))
              ELSE descr \in {nm \o T(" - ") \o T("Not Found"),
                              nm \o T(" - ") \o T("UKNOWN IBAN")}
           /\ \A k \in 1..Len(descr) : <<descr[k]>> \notin {CdtrNm, CdtrIban}

C6_Witness ==
    /\ TxReturned
    /\ HasChild(tx_dtls, "RltdPties")
    /\ LastChild(tx_dtls, "RltdPties") = RltdBoth
    /\ tx_out.val.description = DbtrNm \o T(" - ") \o DbtrIban

\* a TxDtls made of an Amt, a CdtDbtInd and one RltdPties whose parties,
\* when present, have a name
OneRltdPties ==
    /\ Len(tx_dtls.children) = 3
    /\ tx_dtls.children[1].tag = "Amt"
    /\ tx_dtls.children[2].tag = "CdtDbtInd"
    /\ tx_dtls.children[3].tag = "RltdPties"
    /\ \A p \in {"Cdtr", "Dbtr"} :
           HasChild(tx_dtls.children[3], p)
               => HasChild(GetChild(tx_dtls.children[3], p), "Nm")

IbanMissing(rltd, acct) == ~(HasChild(rltd, acct) /\ HasIdIban(GetChild(rltd, acct)))

\* C8: a party present in RltdPties whose account IBAN is not found along
\* CdtrAcct/Id/IBAN (DbtrAcct/Id/IBAN) does not make enrichment fail, and the
\* IBAN part of the description is then one and the same sentinel.
C8_UniformSentinel ==
    pc = "tx_ret" /\ OneRltdPties =>
        LET rltd == tx_dtls.children[3] IN
        /\ (\/ HasChild(rltd, "Cdtr") /\ IbanMissing(rltd, "CdtrAcct")
            \/ HasChild(rltd, "Dbtr") /\ IbanMissing(rltd, "DbtrAcct"))
               => tx_out.ok
        /\ (tx_out.ok /\ HasChild(rltd, "Dbtr") /\ IbanMissing(rltd, "DbtrAcct"))
               => tx_out.val.description = DbtrNm \o T(" - ") \o T("UKNOWN IBAN")
        /\ (/\ tx_out.ok /\ ~HasChild(rltd, "Dbtr")
            /\ HasChild(rltd, "Cdtr") /\ IbanMissing(rltd, "CdtrAcct"))
               => tx_out.val.description = CdtrNm \o T(" - ") \o T("UKNOWN IBAN")

EndsWith(text, suffix) ==
    /\ Len(text) >= Len(suffix)
    /\ SubSeq(text, Len(text) - Len(suffix) + 1, Len(text)) = suffix

\* C9: a TxDtls whose last child is an RmtInf yields a description ending in
\* the text of the RmtInf's Ustrd, and fails when the RmtInf has no Ustrd.
C9_RmtInfAppended ==
    (/\ pc = "tx_ret"
     /\ tx_dtls.children # <<>>
     /\ tx_dtls.children[Len(tx_dtls.children)].tag = "RmtInf") =>
        LET rmt == tx_dtls.children[Len(tx_dtls.children)] IN
        IF HasChild(rmt, "Ustrd")
        THEN tx_out.ok => EndsWith(tx_out.val.description, GetChild(rmt, "Ustrd").text)
        ELSE ~tx_out.ok

====
